---- MODULE Spec2Model ----
(***************************************************************************)
(* Model of src/calculator.c: four arithmetic functions over C doubles.   *)
(*                                                                         *)
(* A double is modelled as a binary floating-point number of the IEEE-754 *)
(* shape (sign, subnormals, normal binades, signed zeros, infinities, NaN, *)
(* round-to-nearest-even), with a reduced fraction width and exponent      *)
(* range so that every pair of operands can be enumerated.  A finite       *)
(* magnitude is held as a whole number of units, the unit being the        *)
(* smallest subnormal.                                                     *)
(***************************************************************************)
EXTENDS Integers, FiniteSets

VARIABLES pc, op, a, b, ret

vars == <<pc, op, a, b, ret>>

(* ------------------------------ bounds -------------------------------- *)

\* fraction bits of the reduced double (binary64 has 52)
MantBits == 2

\* largest binade exponent of the reduced double (binary64 has 1023)
ExpMax == 3

\* number of threads that may call into the module at once
NThreads == 2

(* ------------------------- the double format --------------------------- *)

RECURSIVE Pow2(_)
Pow2(n) == IF n = 0 THEN 1 ELSE 2 * Pow2(n - 1)

\* significand width, implicit bit included
Precision == MantBits + 1

\* smallest normal binade exponent, as in IEEE-754: emin = 1 - emax
ExpMin == 1 - ExpMax

\* number of the top binade, counted from the subnormal binade 0
KMax == ExpMax - ExpMin

\* the value 1.0 in units
OneMag == Pow2(MantBits - ExpMin)

\* largest finite magnitude
MaxMag == (Pow2(Precision) - 1) * Pow2(KMax)

\* the finite magnitudes the format holds
Mags == {m * Pow2(k) : m \in 0..(Pow2(Precision) - 1), k \in 0..KMax}

Fin(s, m) == [cls |-> "fin", sign |-> s, mag |-> m]
Inf(s) == [cls |-> "inf", sign |-> s, mag |-> 0]
NaN == [cls |-> "nan", sign |-> 0, mag |-> 0]

\* every value a double argument can hold
Doubles == {Fin(s, m) : s \in {0, 1}, m \in Mags} \cup {Inf(0), Inf(1), NaN}

IsFinite(x) == x.cls = "fin"
IsNaN(x) == x.cls = "nan"
IsInf(x) == x.cls = "inf"
IsZero(x) == x.cls = "fin" /\ x.mag = 0

\* conversion of a small non-negative C int to double (exact)
FromInt(n) == Fin(0, n * OneMag)

Neg(x) == IF IsNaN(x) THEN x ELSE [x EXCEPT !.sign = 1 - x.sign]

Xor(s, t) == IF s = t THEN 0 ELSE 1

\* binade of the non-negative rational n/d units: least k with n/d < 2^(Precision+k)
RECURSIVE Binade(_, _, _)
Binade(n, d, k) == IF n < d * Pow2(Precision + k) THEN k ELSE Binade(n, d, k + 1)

\* n/d units rounded to nearest, ties to even, exponent unbounded above
RoundMag(n, d) ==
  LET q == Pow2(Binade(n, d, 0))
      lo == (n \div (d * q)) * q
      rem2 == 2 * (n - lo * d)
      half2 == d * q
  IN  IF rem2 < half2 THEN lo
      ELSE IF rem2 > half2 THEN lo + q
      ELSE IF (lo \div q) % 2 = 0 THEN lo ELSE lo + q

\* the double nearest to (-1)^s * n/d units; overflow gives infinity
Round(s, n, d) ==
  LET m == RoundMag(n, d)
  IN  IF m > MaxMag THEN Inf(s) ELSE Fin(s, m)

Signed(x) == IF x.sign = 1 THEN 0 - x.mag ELSE x.mag
Abs(i) == IF i < 0 THEN 0 - i ELSE i

\* a + b on doubles
FAdd(x, y) ==
  IF IsNaN(x) \/ IsNaN(y) THEN NaN
  ELSE IF IsInf(x) /\ IsInf(y) THEN (IF x.sign = y.sign THEN x ELSE NaN)
  ELSE IF IsInf(x) THEN x
  ELSE IF IsInf(y) THEN y
  ELSE LET s == Signed(x) + Signed(y)
       IN  IF s = 0 THEN Fin(IF x.sign = 1 /\ y.sign = 1 THEN 1 ELSE 0, 0)
           ELSE Round(IF s < 0 THEN 1 ELSE 0, Abs(s), 1)

\* a - b on doubles
FSub(x, y) == FAdd(x, Neg(y))

\* a * b on doubles
FMul(x, y) ==
  IF IsNaN(x) \/ IsNaN(y) THEN NaN
  ELSE IF (IsInf(x) /\ IsZero(y)) \/ (IsZero(x) /\ IsInf(y)) THEN NaN
  ELSE IF IsInf(x) \/ IsInf(y) THEN Inf(Xor(x.sign, y.sign))
  ELSE Round(Xor(x.sign, y.sign), x.mag * y.mag, OneMag)

\* a / b on doubles
FDiv(x, y) ==
  IF IsNaN(x) \/ IsNaN(y) THEN NaN
  ELSE IF (IsInf(x) /\ IsInf(y)) \/ (IsZero(x) /\ IsZero(y)) THEN NaN
  ELSE IF IsInf(x) \/ IsZero(y) THEN Inf(Xor(x.sign, y.sign))
  ELSE IF IsInf(y) THEN Fin(Xor(x.sign, y.sign), 0)
  ELSE Round(Xor(x.sign, y.sign), x.mag * OneMag, y.mag)

\* the C comparison x == y on doubles
FEq(x, y) ==
  /\ ~IsNaN(x)
  /\ ~IsNaN(y)
  /\ \/ x = y
     \/ IsZero(x) /\ IsZero(y)

(* --------------------------- the functions ----------------------------- *)

\* add with the operator of the next function
AddAsSubtract(x, y) == FSub(x, y)

\* double add(double a, double b) { return a + b; }
add(x, y) == FAdd(x, y)

\* substract with its operands exchanged
SubstractSwapped(x, y) == FSub(y, x)

\* double substract(double a, double b) { return a - b; }
substract(x, y) == FSub(x, y)

\* multiply with the operator of another function
MultiplyAsAdd(x, y) == FAdd(x, y)
MultiplyAsDivide(x, y) == FDiv(x, y)

\* double multiply(double a, double b) { return a * b; }
multiply(x, y) == FMul(x, y)

\* divide without its test, and with a test against a tolerance
NoZeroCheck(y) == FALSE
DivisorNearZero(y) == IsFinite(y) /\ y.mag < OneMag

\* the test of divide: b == 0, the int 0 converted to double
DivisorIsZero(y) == FEq(y, FromInt(0))

\* a sentinel that no quotient of finite operands equals
SentinelNaN == NaN

\* return 0; the int 0 converted to the return type
Sentinel == FromInt(0)

\* the quotient with its operands exchanged
QuotientSwapped(x, y) == FDiv(y, x)

\* return a / b;
Quotient(x, y) == FDiv(x, y)

\* double divide(double a, double b), run from entry to return
divide(x, y) == IF DivisorIsZero(y) THEN Sentinel ELSE Quotient(x, y)

\* the external symbols the translation unit defines
Defined == {"add", "substract", "multiply", "divide"}

\* the functions ../include/calculator.h declares to callers
Declared == {"add", "subtract", "multiply", "divide"}

\* the names a caller may write
CallNames == Declared \cup Defined

(* ------------------------------ callers -------------------------------- *)

Threads == 1..NThreads

\* the thread of the single-caller specification
Caller == CHOOSE t \in Threads : \A u \in Threads : t <= u

\* operands used when several threads call at once
ConcInputs == {FromInt(0), FromInt(1), FromInt(2)}

\* the divisor kept in one static slot that every call reads
ParamBShared(t) == b[Caller]

\* a parameter is passed by value: each call reads its own copy
ParamA(t) == a[t]
ParamB(t) == b[t]

Init ==
  /\ pc = [t \in Threads |-> "idle"]
  /\ op = [t \in Threads |-> "none"]
  /\ a = [t \in Threads |-> FromInt(0)]
  /\ b = [t \in Threads |-> FromInt(0)]
  /\ ret = [t \in Threads |-> FromInt(0)]

\* a caller names a function and passes two doubles; a name the translation
\* unit does not define does not resolve to any function
Invoke(t, S) ==
  /\ pc[t] = "idle"
  /\ \E n \in CallNames, x \in S, y \in S :
       IF n \in Defined
       THEN /\ pc' = [pc EXCEPT ![t] = n]
            /\ op' = [op EXCEPT ![t] = n]
            /\ a' = [a EXCEPT ![t] = x]
            /\ b' = [b EXCEPT ![t] = y]
            /\ UNCHANGED ret
       ELSE /\ pc' = [pc EXCEPT ![t] = "undefined"]
            /\ op' = [op EXCEPT ![t] = n]
            /\ UNCHANGED <<a, b, ret>>

add_body(t) ==
  /\ pc[t] = "add"
  /\ ret' = [ret EXCEPT ![t] = add(ParamA(t), ParamB(t))]
  /\ pc' = [pc EXCEPT ![t] = "done"]
  /\ UNCHANGED <<op, a, b>>

substract_body(t) ==
  /\ pc[t] = "substract"
  /\ ret' = [ret EXCEPT ![t] = substract(ParamA(t), ParamB(t))]
  /\ pc' = [pc EXCEPT ![t] = "done"]
  /\ UNCHANGED <<op, a, b>>

multiply_body(t) ==
  /\ pc[t] = "multiply"
  /\ ret' = [ret EXCEPT ![t] = multiply(ParamA(t), ParamB(t))]
  /\ pc' = [pc EXCEPT ![t] = "done"]
  /\ UNCHANGED <<op, a, b>>

\* if (b == 0)
divide_test(t) ==
  /\ pc[t] = "divide"
  /\ pc' = [pc EXCEPT ![t] = IF DivisorIsZero(ParamB(t)) THEN "divide_ret0"
                                                       ELSE "divide_retq"]
  /\ UNCHANGED <<op, a, b, ret>>

\* return 0;
divide_ret0(t) ==
  /\ pc[t] = "divide_ret0"
  /\ ret' = [ret EXCEPT ![t] = Sentinel]
  /\ pc' = [pc EXCEPT ![t] = "done"]
  /\ UNCHANGED <<op, a, b>>

\* return a / b;
divide_retq(t) ==
  /\ pc[t] = "divide_retq"
  /\ ret' = [ret EXCEPT ![t] = Quotient(ParamA(t), ParamB(t))]
  /\ pc' = [pc EXCEPT ![t] = "done"]
  /\ UNCHANGED <<op, a, b>>

\* the caller takes the returned value; the call's frame is gone
Return(t) ==
  /\ pc[t] = "done"
  /\ pc' = [pc EXCEPT ![t] = "idle"]
  /\ op' = [op EXCEPT ![t] = "none"]
  /\ a' = [a EXCEPT ![t] = FromInt(0)]
  /\ b' = [b EXCEPT ![t] = FromInt(0)]
  /\ ret' = [ret EXCEPT ![t] = FromInt(0)]

\* one caller, every pair of doubles
Next ==
  \/ Invoke(Caller, Doubles)
  \/ add_body(Caller)
  \/ substract_body(Caller)
  \/ multiply_body(Caller)
  \/ divide_test(Caller)
  \/ divide_ret0(Caller)
  \/ divide_retq(Caller)
  \/ Return(Caller)

Spec == Init /\ [][Next]_vars

\* any number of callers, their steps interleaved without synchronization
NextConc ==
  \E t \in Threads :
    \/ Invoke(t, ConcInputs)
    \/ add_body(t)
    \/ substract_body(t)
    \/ multiply_body(t)
    \/ divide_test(t)
    \/ divide_ret0(t)
    \/ divide_retq(t)
    \/ Return(t)

SpecConc == Init /\ [][NextConc]_vars

(* ------------------- what the arithmetic must yield -------------------- *)

\* spacing of the format around magnitude m
Quantum(m) == Pow2(Binade(m, 1, 0))

\* whether the significand of magnitude m is even
EvenMag(m) == m % (2 * Quantum(m)) = 0

\* r is the IEEE-754 rounding of the real number (-1)^s * n/d units, n > 0:
\* infinity from the overflow threshold on, otherwise the nearest magnitude of
\* the format, the one with the even significand when two are equally near
CorrectlyRounded(r, s, n, d) ==
  IF 2 * n >= d * (2 * MaxMag + Pow2(KMax))
  THEN r = Inf(s)
  ELSE /\ IsFinite(r)
       /\ r.sign = s
       /\ r.mag \in Mags
       /\ \A m \in Mags :
            /\ Abs(r.mag * d - n) <= Abs(m * d - n)
            /\ (m # r.mag /\ Abs(r.mag * d - n) = Abs(m * d - n)) => EvenMag(r.mag)

\* r is the double for the exact integer i units
IsSum(r, i) ==
  IF i = 0 THEN IsZero(r) ELSE CorrectlyRounded(r, IF i < 0 THEN 1 ELSE 0, Abs(i), 1)

\* a finished call of function f by thread t on finite operands
DoneFinite(t, f) ==
  /\ pc[t] = "done"
  /\ op[t] = f
  /\ IsFinite(a[t])
  /\ IsFinite(b[t])

TwoAndHalf == Fin(0, (5 * OneMag) \div 2)

(* ------------------------------- claims -------------------------------- *)

\* C1: for every finite dividend a, divide(a, b) with b exactly zero (either
\* sign) returns +0.0, never an infinity or a NaN.
C1_DivideByZeroReturnsZero ==
  \A t \in Threads :
    (DoneFinite(t, "divide") /\ IsZero(b[t])) =>
      /\ ret[t] = FromInt(0)
      /\ ~IsInf(ret[t])
      /\ ~IsNaN(ret[t])

\* divide(7.0, 0.0) has returned 0.0
C1_Witness ==
  \E t \in Threads :
    /\ DoneFinite(t, "divide")
    /\ a[t] = FromInt(7)
    /\ b[t] = FromInt(0)
    /\ ret[t] = FromInt(0)

\* C2: for finite a and b with b not zero, divide(a, b) returns the correctly
\* rounded quotient a / b, and the sentinel branch is entered only with a
\* zero divisor.
C2_DivideReturnsQuotient ==
  \A t \in Threads :
    /\ (DoneFinite(t, "divide") /\ ~IsZero(b[t])) =>
         IF IsZero(a[t])
         THEN ret[t] = Fin(Xor(a[t].sign, b[t].sign), 0)
         ELSE CorrectlyRounded(ret[t], Xor(a[t].sign, b[t].sign),
                               a[t].mag * OneMag, b[t].mag)
    /\ pc[t] = "divide_ret0" => IsZero(b[t])

\* divide(10.0, 2.0) has returned 5.0
C2_Witness ==
  \E t \in Threads :
    /\ DoneFinite(t, "divide")
    /\ a[t] = FromInt(10)
    /\ b[t] = FromInt(2)
    /\ ret[t] = FromInt(5)

\* C3: for finite a and b, the subtraction function returns the correctly
\* rounded a - b, first argument minuend, second subtrahend.
C3_SubtractReturnsDifference ==
  \A t \in Threads :
    DoneFinite(t, "substract") => IsSum(ret[t], Signed(a[t]) - Signed(b[t]))

\* substract(5.0, 3.0) has returned 2.0
C3_Witness ==
  \E t \in Threads :
    /\ DoneFinite(t, "substract")
    /\ a[t] = FromInt(5)
    /\ b[t] = FromInt(3)
    /\ ret[t] = FromInt(2)

\* C4: for finite a and b, add(a, b) returns the correctly rounded a + b.
C4_AddReturnsSum ==
  \A t \in Threads :
    DoneFinite(t, "add") => IsSum(ret[t], Signed(a[t]) + Signed(b[t]))

\* add(2.0, 3.0) has returned 5.0
C4_Witness ==
  \E t \in Threads :
    /\ DoneFinite(t, "add")
    /\ a[t] = FromInt(2)
    /\ b[t] = FromInt(3)
    /\ ret[t] = FromInt(5)

\* C5: for finite a and b, multiply(a, b) returns the correctly rounded a * b.
C5_MultiplyReturnsProduct ==
  \A t \in Threads :
    DoneFinite(t, "multiply") =>
      IF IsZero(a[t]) \/ IsZero(b[t])
      THEN ret[t] = Fin(Xor(a[t].sign, b[t].sign), 0)
      ELSE CorrectlyRounded(ret[t], Xor(a[t].sign, b[t].sign),
                            a[t].mag * b[t].mag, OneMag)

\* multiply(4.0, 2.5) has returned 10.0
C5_Witness ==
  \E t \in Threads :
    /\ DoneFinite(t, "multiply")
    /\ a[t] = FromInt(4)
    /\ b[t] = TwoAndHalf
    /\ ret[t] = FromInt(10)

\* C6: the interface is exactly add, subtract, multiply and divide, and a
\* caller can invoke each of the four by that name: no call by a declared
\* name is left without a function.
C6_DeclaredNamesResolve ==
  \A t \in Threads : op[t] \in Declared => pc[t] # "undefined"

\* the value function f returns when the call runs alone, entry to return
Alone(f, x, y) ==
  CASE f = "add" -> add(x, y)
    [] f = "substract" -> substract(x, y)
    [] f = "multiply" -> multiply(x, y)
    [] f = "divide" -> divide(x, y)

\* C7: under every interleaving of concurrent calls, each finished call holds
\* the value its function returns for its own two arguments when run alone,
\* and a step of one call changes nothing that belongs to another call.
C7_ReentrantInv ==
  \A t \in Threads : pc[t] = "done" => ret[t] = Alone(op[t], a[t], b[t])

C7_NoSharedWrites ==
  \E t \in Threads :
    \A u \in Threads \ {t} :
      /\ pc'[u] = pc[u]
      /\ op'[u] = op[u]
      /\ a'[u] = a[u]
      /\ b'[u] = b[u]
      /\ ret'[u] = ret[u]

C7_Reentrant == []C7_ReentrantInv /\ [][C7_NoSharedWrites]_vars

\* one call of divide has returned while another, with a different divisor,
\* stands between its test and its return
C7_Witness ==
  \E t \in Threads, u \in Threads :
    /\ t # u
    /\ pc[t] = "done"
    /\ op[t] = "divide"
    /\ pc[u] = "divide_ret0"
    /\ ~IsZero(b[t])
    /\ ret[t] = Quotient(a[t], b[t])

\* C8: what divide returns for a zero divisor is also a quotient: for every
\* finite a there are finite a', b' with b' not zero (a' = 0 among them)
\* such that divide(a', b') == divide(a, 0.0).
C8_SentinelIsAlsoAQuotient ==
  \A t \in Threads :
    (DoneFinite(t, "divide") /\ IsZero(b[t])) =>
      /\ \E y \in Doubles :
           /\ IsFinite(y)
           /\ ~IsZero(y)
           /\ FEq(divide(FromInt(0), y), ret[t])
      /\ \A y \in Doubles :
           (IsFinite(y) /\ ~IsZero(y)) => FEq(divide(FromInt(0), y), ret[t])

\* divide(a, -0.0) has returned for a non-zero finite a
C8_Witness ==
  \E t \in Threads :
    /\ DoneFinite(t, "divide")
    /\ ~IsZero(a[t])
    /\ b[t] = Neg(FromInt(0))
    /\ FEq(ret[t], Quotient(FromInt(0), FromInt(1)))

\* C9: for finite a and b, add(a, b) == add(b, a) and
\* multiply(a, b) == multiply(b, a), == being the comparison of doubles.
C9_Commutative ==
  \A t \in Threads :
    /\ DoneFinite(t, "add") => FEq(ret[t], add(b[t], a[t]))
    /\ DoneFinite(t, "multiply") => FEq(ret[t], multiply(b[t], a[t]))

\* a product of two different non-zero operands has been returned
C9_Witness ==
  \E t \in Threads :
    /\ DoneFinite(t, "multiply")
    /\ a[t] = FromInt(4)
    /\ b[t] = TwoAndHalf
    /\ FEq(ret[t], multiply(b[t], a[t]))

\* C10: for every finite a, add(a, 0.0) == a, multiply(a, 1.0) == a and
\* divide(a, 1.0) == a, == being the comparison of doubles.
C10_Identity ==
  \A t \in Threads :
    /\ (DoneFinite(t, "add") /\ b[t] = FromInt(0)) => FEq(ret[t], a[t])
    /\ (DoneFinite(t, "multiply") /\ b[t] = FromInt(1)) => FEq(ret[t], a[t])
    /\ (DoneFinite(t, "divide") /\ b[t] = FromInt(1)) => FEq(ret[t], a[t])

\* divide(a, 1.0) has returned a for a subnormal a
C10_Witness ==
  \E t \in Threads :
    /\ DoneFinite(t, "divide")
    /\ b[t] = FromInt(1)
    /\ a[t] = Fin(1, 1)
    /\ ret[t] = a[t]

====
